---- MODULE Spec2Model ----
(***************************************************************************)
(* A model of tdctld: the lunartick library (src/lunartick/src/lib.rs) and *)
(* the daemon binary's sync / daemon commands (src/daemon/src/main.rs).    *)
(*                                                                         *)
(* Numbers.  TLC's integers are 32 bits wide, the program's u32 and i64    *)
(* are not, so a u32 (and an i64 count of seconds) is kept as two 16-bit   *)
(* halves, [hi, lo] with value hi * 2^16 + lo and 0 <= lo < 2^16; hi is    *)
(* signed for an i64.  An f64 is kept as an exact fraction n/d, or as one  *)
(* of the two special values the program can produce (inf, nan): rounding  *)
(* of f64 arithmetic is not modelled, except in the timestamp codec where  *)
(* the f64 computation is exact (see FractionToNanos, NanosToFraction).    *)
(***************************************************************************)
EXTENDS Integers, Naturals, Sequences, FiniteSets, TLC

VARIABLES
    \* ---- the sync / daemon pipeline (src/daemon/src/main.rs) ----
    command,    \* "sync" or "daemon": the subcommand main dispatched
    servers,    \* NTPClient.servers: the ordered server list
    timeout,    \* daemon's sleep interval, seconds
    pc,         \* where the command is: test, combine, commit, sleep, done, failed
    cycle,      \* number of the current call of sync (1, 2, ...)
    active,     \* calls of sync that have started and not returned
    times,      \* NTPClient::test's local Vec of Option<NTPResult>
    probeLog,   \* per probe of this cycle: what ntp_roundtrip received and returned
    result,     \* TestResults.result: HashMap<String, Option<NTPResult>>
    offset,     \* sync's local `offset`: the f64 get_time_millis returned
    clock,      \* the operating system's wall clock (UTC instant)
    errno,      \* the thread's last OS error code (std::io::Error::last_os_error)
    lastSet,    \* this call of sync's call of Clock::set: what it was given and returned
    \* ---- the timestamp codec exercised on its own ----
    ntpIn,      \* the NTPTimestamp the codec run starts from
    stage,      \* how many conversions the codec run has made (0..3)
    abs1,       \* DateTime<Utc> after the first conversion
    ntp2,       \* NTPTimestamp after converting back
    abs2        \* DateTime<Utc> after the third conversion

vars == <<command, servers, timeout, pc, cycle, active, times, probeLog, result,
          offset, clock, errno, lastSet, ntpIn, stage, abs1, ntp2, abs2>>

pipelineVars == <<command, servers, timeout, pc, cycle, active, times, probeLog,
                  result, offset, clock, errno, lastSet>>

codecVars == <<ntpIn, stage, abs1, ntp2, abs2>>

None == [k |-> "None"]

(***************************************************************************)
(* Program constants.                                                      *)
(***************************************************************************)
NTP_MESSAGE_LENGTH == 48

\* 2_208_988_800 = 33706 * 2^16 + 32384
NTP_TO_UNIX_SECONDS == [hi |-> 33706, lo |-> 32384]

NANOS_PER_SEC == 1000 * 1000 * 1000

NANOS_PER_MILLI == 1000 * 1000

MILLIS_PER_SEC == NANOS_PER_SEC \div NANOS_PER_MILLI

\* 1e9 = 5^9 * 2^9, so x * 1e9 / 2^32 = x * 5^9 / 2^23
Pow5_9 == 5 * 5 * 5 * 5 * 5 * 5 * 5 * 5 * 5

Two16 == 2 ^ 16

Two23 == 2 ^ 23

(***************************************************************************)
(* Wide integers as two 16-bit halves.                                     *)
(***************************************************************************)
\* floor division and modulus are TLA+'s \div and % for a positive divisor
Norm(hi, lo) == [hi |-> hi + (lo \div Two16), lo |-> lo % Two16]

\* a as i64 + b as i64
WideAdd(a, b) == Norm(a.hi + b.hi, a.lo + b.lo)

\* a as i64 - b as i64
WideSub(a, b) == Norm(a.hi - b.hi, a.lo - b.lo)

\* i64 + a small integer
WideAddInt(a, k) == Norm(a.hi, a.lo + k)

\* `x as u32` of an i64: the low 32 bits
AsU32(a) == [hi |-> a.hi % Two16, lo |-> a.lo]

\* the difference of two i64 as a plain integer (it must fit TLC's integers)
WideDiff(a, b) == (a.hi - b.hi) * Two16 + (a.lo - b.lo)

WideLess(a, b) == a.hi < b.hi \/ (a.hi = b.hi /\ a.lo < b.lo)

(***************************************************************************)
(* DateTime<Utc>: [secs: i64 seconds since the Unix epoch, nanos: u32].    *)
(***************************************************************************)
DateTime(secs, nanos) == [secs |-> secs, nanos |-> nanos]

DtLess(a, b) == WideLess(a.secs, b.secs) \/ (a.secs = b.secs /\ a.nanos < b.nanos)

DtLeq(a, b) == a = b \/ DtLess(a, b)

(***************************************************************************)
(* Timestamp codec.                                                        *)
(***************************************************************************)
\* floor(frac * 5^k / 2^23) + int * 5^k, one factor 5 at a time, keeping the
\* running value as int + frac / 2^23 with 0 <= frac < 2^23
RECURSIVE Times5(_, _, _)
Times5(int, frac, k) ==
    IF k = 0 THEN int
    ELSE Times5(int * 5 + ((frac * 5) \div Two23), (frac * 5) % Two23, k - 1)

\* floor(rem * 2^k / 5^9) + int * 2^k, one doubling at a time, keeping the
\* running value as int + rem / 5^9 with 0 <= rem < 5^9
RECURSIVE Doubled(_, _, _)
Doubled(int, rem, k) ==
    IF k = 0 THEN int
    ELSE Doubled(int * 2 + ((rem * 2) \div Pow5_9), (rem * 2) % Pow5_9, k - 1)

\* lib.rs 207-210: nanos = fraction as f64; nanos *= 1e9; nanos /= 2^32;
\* nanos as u32.  fraction * 1e9 = (fraction * 5^9) * 2^9 with
\* fraction * 5^9 < 2^53, so the product is exact in f64, the division by a
\* power of two is exact, and the cast truncates: floor(fraction * 5^9 / 2^23).
\* With fraction = A * 2^23 + B this is A * 5^9 + floor(B * 5^9 / 2^23).
FractionToNanos(fraction) ==
    LET A == fraction.hi \div 128
        B == (fraction.hi % 128) * Two16 + fraction.lo
    IN  Times5(A, B, 9)

\* lib.rs 217-222: fraction = nanos as f64; fraction *= 2^32; fraction /= 1e9;
\* fraction as u32.  The product is exact; the quotient q = nanos * 2^23 / 5^9
\* is rounded to the nearest f64, an error of at most 2^-22, while a
\* non-integer q lies at least 1/5^9 > 2^-22 below the next integer, so the
\* rounded value never reaches it and the cast gives floor(q) < 2^32.
\* With nanos = Q * 5^9 + R this is Q * 2^23 + floor(R * 2^23 / 5^9).
NanosToFraction(nanos) ==
    LET Q == nanos \div Pow5_9
        C == Doubled(0, nanos % Pow5_9, 23)
    IN  [hi |-> Q * 128 + (C \div Two16), lo |-> C % Two16]

NTPTimestamp(seconds, fraction) == [seconds |-> seconds, fraction |-> fraction]

\* impl From<NTPTimestamp> for DateTime<Utc>
NtpToUtc(ntp) ==
    DateTime(WideSub(ntp.seconds, NTP_TO_UNIX_SECONDS), FractionToNanos(ntp.fraction))

\* a conversion that leaves the seconds on the Unix epoch
UtcToNtpUnixSeconds(utc) ==
    NTPTimestamp(AsU32(utc.secs), NanosToFraction(utc.nanos))

\* impl From<DateTime<Utc>> for NTPTimestamp
UtcToNtp(utc) ==
    NTPTimestamp(AsU32(WideAdd(utc.secs, NTP_TO_UNIX_SECONDS)),
                 NanosToFraction(utc.nanos))

(***************************************************************************)
(* The codec on its own: a run converts ntpIn to an instant, back to an    *)
(* NTPTimestamp, and to an instant again.                                  *)
(***************************************************************************)
\* bounds of the sampled u32 values
MaxSecondsSamples == 3

MaxFractionSamples == 4

\* 16-bit halves the sampled u32 values are built from: the ends of the range,
\* the NTP/Unix epoch offset's halves, and the halves around bit 23
EdgeHalves == {0, 1, 127, 128, 32384, 32767, 32768, 33706, 65535}

U32Samples(n) ==
    {[hi |-> h, lo |-> l] : h \in EdgeHalves, l \in (0..n) \cup ((65535 - n)..65535)}

\* the codec's input: any sampled NTPTimestamp
CodecInput ==
    /\ ntpIn \in {NTPTimestamp(s, f) :
                    s \in {w \in U32Samples(MaxSecondsSamples) : w.hi \in {0, 33706, 65535}},
                    f \in U32Samples(MaxFractionSamples)}
    /\ stage = 0
    /\ abs1 = None
    /\ ntp2 = None
    /\ abs2 = None

ToAbsolute ==
    /\ stage = 0
    /\ abs1' = NtpToUtc(ntpIn)
    /\ stage' = 1
    /\ UNCHANGED <<ntpIn, ntp2, abs2>>
    /\ UNCHANGED pipelineVars

ToNtp ==
    /\ stage = 1
    /\ ntp2' = UtcToNtp(abs1)
    /\ stage' = 2
    /\ UNCHANGED <<ntpIn, abs1, abs2>>
    /\ UNCHANGED pipelineVars

ToAbsoluteAgain ==
    /\ stage = 2
    /\ abs2' = NtpToUtc(ntp2)
    /\ stage' = 3
    /\ UNCHANGED <<ntpIn, abs1, ntp2>>
    /\ UNCHANGED pipelineVars

(***************************************************************************)
(* chrono::Duration: [secs: i64, nanos: i32] with 0 <= nanos < 1e9, the    *)
(* value being secs + nanos / 1e9 seconds.  In the model secs is a plain   *)
(* integer: the instants subtracted lie less than 2^31 seconds apart.      *)
(***************************************************************************)
Duration(secs, nanos) ==
    [secs |-> secs + (nanos \div NANOS_PER_SEC), nanos |-> nanos % NANOS_PER_SEC]

\* DateTime - DateTime (signed_duration_since)
DtSub(a, b) == Duration(WideDiff(a.secs, b.secs), a.nanos - b.nanos)

\* Duration - Duration
DurSub(x, y) == Duration(x.secs - y.secs, x.nanos - y.nanos)

\* Duration::num_seconds: towards zero
NumSeconds(d) == IF d.secs < 0 /\ d.nanos > 0 THEN d.secs + 1 ELSE d.secs

\* Duration::nanos_mod_sec
NanosModSec(d) == IF d.secs < 0 /\ d.nanos > 0 THEN d.nanos - NANOS_PER_SEC ELSE d.nanos

\* Rust's integer division truncates towards zero
TruncDiv(a, b) == IF a >= 0 THEN a \div b ELSE -((-a) \div b)

\* Duration::num_milliseconds
NumMilliseconds(d) ==
    NumSeconds(d) * MILLIS_PER_SEC + TruncDiv(NanosModSec(d), NANOS_PER_MILLI)

\* DateTime + Duration::milliseconds(ms)
DtAddMillis(dt, ms) ==
    LET n == dt.nanos + (ms % MILLIS_PER_SEC) * NANOS_PER_MILLI
    IN  DateTime(WideAddInt(dt.secs, (ms \div MILLIS_PER_SEC) + (n \div NANOS_PER_SEC)),
                 n % NANOS_PER_SEC)

\* an instant `ns` nanoseconds after dt (ns may be negative, |ns| < 2^31)
DtAddNanos(dt, ns) ==
    LET n == dt.nanos + ns
    IN  DateTime(WideAddInt(dt.secs, n \div NANOS_PER_SEC), n % NANOS_PER_SEC)

(***************************************************************************)
(* NTPResult and its derived quantities.                                   *)
(***************************************************************************)
NTPResult(t1, t2, t3, t4) == [k |-> "Some", t1 |-> t1, t2 |-> t2, t3 |-> t3, t4 |-> t4]

Abs(x) == IF x < 0 THEN -x ELSE x

Min(a, b) == IF a < b THEN a ELSE b

\* a delay that rounds each difference to milliseconds before subtracting
DelayOfRoundedTerms(r) ==
    NumMilliseconds(DtSub(r.t4, r.t1)) - NumMilliseconds(DtSub(r.t3, r.t2))

\* NTPResult::delay
Delay(r) == NumMilliseconds(DurSub(DtSub(r.t4, r.t1), DtSub(r.t3, r.t2)))

\* an offset that keeps the sign of the delay
OffsetSigned(r) == TruncDiv(Delay(r), 2)

\* NTPResult::offset
Offset(r) == TruncDiv(Abs(Delay(r)), 2)

(***************************************************************************)
(* NTPMessage: 48 bytes, a sequence of numbers 0..255 (index 1 is byte 0). *)
(***************************************************************************)
\* NTPMessage::new
NewMessage == [i \in 1..NTP_MESSAGE_LENGTH |-> 0]

\* NTPMessage::client: VERSION = 0b00_011_000 = 24, MODE = 0b00_000_011 = 3;
\* the two bit sets are disjoint, so |= adds them
ClientMessage == [NewMessage EXCEPT ![1] = 24 + 3]

\* a u32 as four big-endian bytes
BigEndian(w) == <<w.hi \div 256, w.hi % 256, w.lo \div 256, w.lo % 256>>

\* ReadBytesExt::read_u32::<BigEndian> on a reader (a byte sequence): the value
\* and the rest of the reader, or an error when fewer than 4 bytes are left
ReadU32(reader) ==
    IF Len(reader) < 4 THEN [k |-> "Err"]
    ELSE [k |-> "Ok",
          v |-> [hi |-> reader[1] * 256 + reader[2], lo |-> reader[3] * 256 + reader[4]],
          rest |-> SubSeq(reader, 5, Len(reader))]

\* NTPMessage::parse_timestamp(i): reader = &self.data[i..i + 8]
ParseTimestamp(data, i) ==
    LET reader == SubSeq(data, i + 1, i + 8)
        s == ReadU32(reader)
        f == IF s.k = "Ok" THEN ReadU32(s.rest) ELSE s
    IN  IF s.k = "Ok" /\ f.k = "Ok"
        THEN [k |-> "Ok", v |-> NTPTimestamp(s.v, f.v)]
        ELSE [k |-> "Err"]

\* NTPMessage::rx_time
RxTime(data) == ParseTimestamp(data, 32)

\* NTPMessage::tx_time
TxTime(data) == ParseTimestamp(data, 40)

\* UdpSocket::recv_from(&mut response.data): the datagram's first bytes
\* overwrite the buffer, what is beyond the buffer is dropped, and the bytes
\* of the buffer the datagram does not reach keep their value
RecvFrom(buf, dgram) ==
    [i \in 1..Len(buf) |-> IF i <= Len(dgram) THEN dgram[i] ELSE buf[i]]

(***************************************************************************)
(* f64 values: [k |-> "fin", n, d] is the fraction n/d in lowest terms     *)
(* (d > 0); [k |-> "inf"] and [k |-> "nan"] are what a division by zero    *)
(* gives.  The program only adds and multiplies finite values.             *)
(***************************************************************************)
RECURSIVE GCD(_, _)
GCD(a, b) == IF b = 0 THEN a ELSE GCD(b, a % b)

Fin(n, d) ==
    LET g == GCD(Abs(n), d)
    IN  [k |-> "fin", n |-> n \div g, d |-> d \div g]

\* `x as f64` of an integer
AsF64(i) == Fin(i, 1)

FAdd(a, b) ==
    LET g == GCD(a.d, b.d)
    IN  Fin(a.n * (b.d \div g) + b.n * (a.d \div g), (a.d \div g) * b.d)

FMul(a, b) ==
    LET g1 == GCD(Abs(a.n), b.d)
        g2 == GCD(Abs(b.n), a.d)
    IN  Fin((a.n \div g1) * (b.n \div g2), (a.d \div g2) * (b.d \div g1))

\* a / b in f64: x / 0.0 is inf for x # 0 and nan for x = 0
FDiv(a, b) ==
    IF b.n = 0 THEN (IF a.n = 0 THEN [k |-> "nan"] ELSE [k |-> "inf"])
    ELSE FMul(a, IF b.n > 0 THEN Fin(b.d, b.n) ELSE Fin(-b.d, -b.n))

\* f64::is_finite
IsFinite(x) == x.k = "fin"

\* `x as i64` of an f64: towards zero, and 0 for NaN (an infinity, which
\* would saturate, is never produced by weighted_mean)
AsI64(x) ==
    CASE x.k = "fin" -> TruncDiv(x.n, x.d)
      [] x.k = "nan" -> 0

(***************************************************************************)
(* weighted_mean and TestResults.                                          *)
(***************************************************************************)
\* the fold of weighted_mean over values.iter().zip(weights), from pair i on
RECURSIVE MeanFold(_, _, _, _)
MeanFold(values, weights, i, acc) ==
    IF i > Len(values) \/ i > Len(weights) THEN acc
    ELSE MeanFold(values, weights, i + 1,
                  [result |-> FAdd(acc.result, FMul(values[i], weights[i])),
                   sum_of_weights |-> FAdd(acc.sum_of_weights, weights[i])])

\* fn weighted_mean
WeightedMean(values, weights) ==
    LET acc == MeanFold(values, weights, 1, [result |-> AsF64(0), sum_of_weights |-> AsF64(0)])
    IN  FDiv(acc.result, acc.sum_of_weights)

\* the entries of a HashMap in the order an iteration visits them: some order
\* (the arithmetic of the model is exact, so the order does not change a sum)
RECURSIVE IterValues(_, _)
IterValues(map, keys) ==
    IF keys = {} THEN <<>>
    ELSE LET key == CHOOSE x \in keys : TRUE
         IN  <<map[key]>> \o IterValues(map, keys \ {key})

\* the weight get_time_millis gives a sample
Weight(time) ==
    LET delay == AsF64(Delay(time))
    IN  FDiv(AsF64(1000000), FMul(delay, delay))

\* a filter that also drops the samples of negative delay
KeepsPositiveDelay(time) == Delay(time) > 0

\* the second filter_map of get_time_millis: keeps the finite weights
KeepsSample(time) == IsFinite(Weight(time))

\* TestResults::get_time_millis
GetTimeMillis(map) ==
    LET present == SelectSeq(IterValues(map, DOMAIN map), LAMBDA r : r.k = "Some")
        kept == SelectSeq(present, KeepsSample)
        offsets == [i \in 1..Len(kept) |-> AsF64(Offset(kept[i]))]
        offset_weights == [i \in 1..Len(kept) |-> Weight(kept[i])]
    IN  WeightedMean(offsets, offset_weights)

\* TestResults::get_all_results
GetAllResults(map) ==
    [server \in DOMAIN map |->
        IF map[server].k = "Some" THEN [k |-> "Some", v |-> Offset(map[server])] ELSE None]

\* the tail of NTPClient::test: times.into_iter().zip(&self.servers)
\*   .map(|(score, server)| (server.to_owned(), score)).collect()
\* into a HashMap: a later pair replaces an earlier one with the same key
Collect(scores, names) ==
    LET n == Min(Len(scores), Len(names))
        last(server) == CHOOSE i \in 1..n :
                            /\ names[i] = server
                            /\ \A j \in (i + 1)..n : names[j] # server
    IN  [server \in {names[i] : i \in 1..n} |-> scores[last(server)]]

(***************************************************************************)
(* The operating system and the network, as far as the program sees them.  *)
(***************************************************************************)
\* error codes a failed system call leaves in errno (Linux numbers)
OsError == [EPERM |-> 1, EAGAIN |-> 11, EADDRINUSE |-> 98, ENETUNREACH |-> 101,
            ECONNREFUSED |-> 111]

\* the read timeout of ntp_roundtrip, in seconds
ReadTimeoutSecs == 1

\* what a server puts on the wire: a 32-byte header, its receive and transmit
\* timestamps, and `extra` more bytes (extension fields), cut to `len` bytes
ServerReply(rx, tx, len) ==
    LET full == [i \in 1..32 |-> IF i = 1 THEN 28 ELSE 0]
                  \o BigEndian(rx.seconds) \o BigEndian(rx.fraction)
                  \o BigEndian(tx.seconds) \o BigEndian(tx.fraction)
                  \o [i \in 1..20 |-> 0]
    IN  SubSeq(full, 1, len)

\* fn ntp_roundtrip, started when the clock reads `now`, under the event `ev`
\* the network produces.  Gives the function's result, the errno a failed
\* system call leaves (0: none failed), the clock when it returns, and the
\* number of bytes recv_from read (-1: it did not return any).
NtpRoundtrip(now, ev) ==
    CASE ev.k = "bind_err" ->
            [res |-> [k |-> "Err", e |-> "IO"], errno |-> OsError.EADDRINUSE,
             clock |-> now, received |-> -1]
      [] ev.k = "connect_err" ->
            [res |-> [k |-> "Err", e |-> "ConnectionError"], errno |-> OsError.ENETUNREACH,
             clock |-> now, received |-> -1]
      [] ev.k = "send_err" ->
            [res |-> [k |-> "Err", e |-> "IO"], errno |-> OsError.ECONNREFUSED,
             clock |-> now, received |-> -1]
      [] ev.k = "recv_err" ->
            [res |-> [k |-> "Err", e |-> "IO"], errno |-> OsError.EAGAIN,
             clock |-> DateTime(WideAddInt(now.secs, ReadTimeoutSecs), now.nanos),
             received |-> -1]
      [] ev.k = "recv" ->
            LET t1 == now
                data == RecvFrom(NewMessage, ev.dgram)
                t4 == DtAddNanos(now, ev.elapsed)
                rx == RxTime(data)
                tx == TxTime(data)
            IN  [res |-> IF rx.k = "Err" \/ tx.k = "Err"
                         THEN [k |-> "Err", e |-> "ParseTimestampError"]
                         ELSE NTPResult(t1, NtpToUtc(rx.v), NtpToUtc(tx.v), t4),
                 errno |-> 0, clock |-> t4, received |-> Min(Len(ev.dgram), Len(data))]

\* the arm of the match in NTPClient::test that returns the error
IsFatal(calc) ==
    calc.k = "Err" /\ calc.e \in {"ConnectionError", "ParseTimestampError"}

\* Result::ok
ResultOk(calc) == IF calc.k = "Err" THEN None ELSE calc

\* fn catch_os_error, reading the thread's errno
CatchOsError(lastOsError) == IF lastOsError = 0 THEN "Ok" ELSE "SetError"

\* Clock::set (not(windows)) of the instant `time`, the settimeofday call
\* succeeding or failing with EPERM as `permitted` says.  Gives the timeval
\* passed, the system call's return value, errno and the clock afterwards, and
\* the method's result.
ClockSet(time, permitted, clockBefore, errnoBefore) ==
    LET tv == [tv_sec |-> time.secs, tv_usec |-> time.nanos \div 1000]
        rc == IF permitted THEN 0 ELSE -1
        errnoAfter == IF permitted THEN errnoBefore ELSE OsError.EPERM
    IN  [tv |-> tv, rc |-> rc, errno |-> errnoAfter,
         clock |-> IF permitted THEN DateTime(tv.tv_sec, tv.tv_usec * 1000) ELSE clockBefore,
         ret |-> CatchOsError(errnoAfter)]

\* Clock::now_with_offset, the clock reading `now`
NowWithOffset(now, off) == DtAddMillis(now, AsI64(off))

\* a match that returns every error of set()
SyncAfterSetStrict(res) == IF res = "Ok" THEN "Ok" ELSE "Err"

\* the match on `res` in sync: a SetError is logged, any other error is
\* returned, and otherwise sync goes on to get() and returns Ok
SyncAfterSet(res) ==
    CASE res = "SetError" -> "Ok"
      [] res = "Ok" -> "Ok"
      [] OTHER -> "Err"

(***************************************************************************)
(* Inputs of the model.                                                    *)
(***************************************************************************)
\* bounds
MaxServers == 2

MaxCycles == 2

\* server names on the command line, in the order of their first use
Names == <<"s1", "s2">>

\* The program only compares server names, so a list stands for every list
\* that renames its servers: the lists kept are those whose names first occur
\* in the order of Names.
FirstUseOrdered(list) ==
    \A i \in 1..Len(list) : \A k \in 1..Len(Names) :
        list[i] = Names[k] =>
            \A m \in 1..(k - 1) : \E j \in 1..(i - 1) : list[j] = Names[m]

\* the server lists the sync command is given: the lists of at most MaxServers
\* names, a name possibly more than once
ServerLists ==
    {list \in UNION {[1..n -> {Names[k] : k \in 1..Len(Names)}] : n \in 0..MaxServers} :
        FirstUseOrdered(list)}

\* the server lists the daemon command is given
DaemonServerLists == {<<>>, <<"s1">>, <<"s1", "s2">>}

\* daemon's `timeout` argument, seconds (1800 is its default)
Timeouts == {1800}

\* the wall clock when the command starts: 2025-10-27 23:28:00 UTC less 0.4 ms
ClockStart == DateTime([hi |-> 26880, lo |-> 0], 999600000)

\* nanoseconds between sending the request and receiving the reply
Elapsed == {700000, 3500000}

\* how far a server's clock is ahead of the local one, in nanoseconds, when it
\* stamps the receipt of the request and when it stamps the reply
ServerLead == {<<0, 0>>, <<-3000000, 0>>, <<-3000000, 2000700>>}

\* lengths of the datagram a server answers with.  A datagram that ends inside
\* the seconds of a timestamp (33..43 bytes) is left out: it decodes to
\* instants more than 2^31 seconds apart, and the model keeps a difference of
\* instants as one integer.
DatagramLens == {0, 46, NTP_MESSAGE_LENGTH, 60}

\* what the network can do to a probe started when the clock reads `now`
Events(now) ==
    {[k |-> e] : e \in {"bind_err", "connect_err", "send_err", "recv_err"}}
    \cup
    {[k |-> "recv", elapsed |-> e,
      dgram |-> ServerReply(UtcToNtp(DtAddNanos(now, p[1])),
                            UtcToNtp(DtAddNanos(now, p[2])), len)] :
        e \in Elapsed, len \in DatagramLens,
        p \in ServerLead}

(***************************************************************************)
(* The sync and daemon commands.                                           *)
(***************************************************************************)
CodecIdle ==
    /\ ntpIn = None
    /\ stage = 3
    /\ abs1 = None
    /\ ntp2 = None
    /\ abs2 = None

\* the state when sync has built its NTPClient and entered NTPClient::test
SyncEntered ==
    /\ pc = "test"
    /\ cycle = 1
    /\ active = 1
    /\ times = <<>>
    /\ probeLog = <<>>
    /\ result = None
    /\ offset = None
    /\ clock = ClockStart
    /\ errno = 0
    /\ lastSet = None
    /\ CodecIdle

\* main dispatching Commands::Sync { servers }
Init ==
    /\ command = "sync"
    /\ servers \in ServerLists
    /\ timeout = 0
    /\ SyncEntered

\* main dispatching Commands::Daemon { servers, timeout }
DaemonInit ==
    /\ command = "daemon"
    /\ servers \in DaemonServerLists
    /\ timeout \in Timeouts
    /\ SyncEntered

\* one turn of the for loop of NTPClient::test: ntp_roundtrip for the next
\* server, and the match on its result
Probe ==
    /\ pc = "test"
    /\ Len(times) < Len(servers)
    /\ \E r \in {NtpRoundtrip(clock, ev) : ev \in Events(clock)} :
         /\ clock' = r.clock
         /\ errno' = IF r.errno = 0 THEN errno ELSE r.errno
         /\ probeLog' = Append(probeLog, [server |-> servers[Len(times) + 1],
                                           received |-> r.received, res |-> r.res])
         /\ IF IsFatal(r.res)
            THEN \* return Err(e): sync's `?` returns it, and so does daemon's
                 /\ pc' = "failed"
                 /\ active' = 0
                 /\ times' = times
            ELSE /\ times' = Append(times, ResultOk(r.res))
                 /\ UNCHANGED <<pc, active>>
    /\ UNCHANGED <<command, servers, timeout, cycle, result, offset, lastSet>>
    /\ UNCHANGED codecVars

\* the end of NTPClient::test: the loop is over, Ok(TestResults { result })
\* (times stays readable in the model until sync returns)
TestReturn ==
    /\ pc = "test"
    /\ Len(times) = Len(servers)
    /\ result' = Collect(times, servers)
    /\ pc' = "combine"
    /\ UNCHANGED <<command, servers, timeout, cycle, active, times, probeLog, offset,
                   clock, errno, lastSet>>
    /\ UNCHANGED codecVars

\* sync, lines 128-136: the report of get_all_results (log lines only) and
\* offset = results.get_time_millis()
Combine ==
    /\ pc = "combine"
    /\ offset' = GetTimeMillis(result)
    /\ pc' = "commit"
    /\ UNCHANGED <<command, servers, timeout, cycle, active, times, probeLog, result,
                   clock, errno, lastSet>>
    /\ UNCHANGED codecVars

\* sync, lines 137-145: Clock::now_with_offset(offset), set(), the match on
\* its result, get(Debug) and the return
Commit ==
    /\ pc = "commit"
    /\ \E permitted \in BOOLEAN, adjusted_dt \in {NowWithOffset(clock, offset)} :
         \E set \in {ClockSet(adjusted_dt, permitted, clock, errno)} :
             /\ clock' = set.clock
             /\ errno' = set.errno
             /\ lastSet' = [cycle |-> cycle, offset |-> offset, now |-> clock,
                            time |-> adjusted_dt, tv |-> set.tv, rc |-> set.rc,
                            ret |-> set.ret]
             /\ pc' = IF SyncAfterSet(set.ret) = "Err" THEN "failed"
                      ELSE IF command = "daemon" THEN "sleep" ELSE "done"
    /\ active' = 0
    /\ times' = <<>>
    /\ probeLog' = <<>>
    /\ result' = None
    /\ offset' = None
    /\ UNCHANGED <<command, servers, timeout, cycle>>
    /\ UNCHANGED codecVars

\* daemon's loop: thread::sleep(timeout), then the next sync(servers.clone())
Sleep ==
    /\ pc = "sleep"
    /\ cycle < MaxCycles
    /\ clock' = DateTime(WideAddInt(clock.secs, timeout), clock.nanos)
    /\ cycle' = cycle + 1
    /\ active' = active + 1
    /\ pc' = "test"
    /\ lastSet' = None
    /\ UNCHANGED <<command, servers, timeout, times, probeLog, result, offset, errno>>
    /\ UNCHANGED codecVars

\* the sync command: one call of sync
Next == Probe \/ TestReturn \/ Combine \/ Commit

Spec == Init /\ [][Next]_vars

\* the daemon command: sync, sleep, sync, ...
DaemonNext == Probe \/ TestReturn \/ Combine \/ Commit \/ Sleep

SpecDaemon == DaemonInit /\ [][DaemonNext]_vars

(***************************************************************************)
(* The codec's specification.                                              *)
(***************************************************************************)
PipelineIdle ==
    /\ command = "none"
    /\ servers = <<>>
    /\ timeout = 0
    /\ pc = "done"
    /\ cycle = 0
    /\ active = 0
    /\ times = <<>>
    /\ probeLog = <<>>
    /\ result = None
    /\ offset = None
    /\ clock = ClockStart
    /\ errno = 0
    /\ lastSet = None

CodecNext == ToAbsolute \/ ToNtp \/ ToAbsoluteAgain

CodecInit == CodecInput /\ PipelineIdle

SpecCodec == CodecInit /\ [][CodecNext]_vars

(***************************************************************************)
(* Properties.                                                             *)
(***************************************************************************)
\* NTPClient::test has returned Ok and sync still holds the TestResults
TestSucceeded == pc \in {"combine", "commit"}

LogIsErr(entry, kinds) == entry.res.k = "Err" /\ entry.res.e \in kinds

\* C1: in NTPClient::test a probe that ends in ConnectionError or
\* ParseTimestampError makes test return that error at once (it is the last
\* probe made and no SampleSet is produced); when every failing probe failed
\* otherwise, test succeeds, the entry of each server whose probe failed is
\* None and the entry of each server whose probe succeeded is its sample.
C1_FatalAbortsSoftDegrades ==
    /\ \A i \in 1..Len(probeLog) :
          LogIsErr(probeLog[i], {"ConnectionError", "ParseTimestampError"}) =>
              /\ pc = "failed"
              /\ i = Len(probeLog)
              /\ result = None
    /\ TestSucceeded =>
          \A i \in 1..Len(servers) :
              /\ probeLog[i].res.k = "Err" => result[servers[i]] = None
              /\ probeLog[i].res.k = "Some" => result[servers[i]] = probeLog[i].res

\* the same statement restricted to server lists that name no server twice
C1_OnDistinctNames ==
    (\A i, j \in 1..Len(servers) : i # j => servers[i] # servers[j])
        => C1_FatalAbortsSoftDegrades

\* C2: when NTPClient::test succeeds the SampleSet holds one entry per element
\* of the server list (its size is the list's length, also when a name occurs
\* more than once), and the entry under a server's name is the outcome of the
\* probe made for that element.
C2_PairedOneToOne ==
    TestSucceeded =>
        /\ Cardinality(DOMAIN result) = Len(servers)
        /\ \A i \in 1..Len(servers) : result[servers[i]] = times[i]

\* C3: a probe that received a datagram of fewer than 48 bytes returned
\* ParseTimestampError, never a sample.
C3_ShortReadIsParseError ==
    \A i \in 1..Len(probeLog) :
        (probeLog[i].received >= 0 /\ probeLog[i].received < NTP_MESSAGE_LENGTH)
            => LogIsErr(probeLog[i], {"ParseTimestampError"})

\* C4: a combined offset that is not finite is never handed to
\* Clock::now_with_offset / Clock::set: no clock-set call is made with it.
C4_NonFiniteNotCommitted ==
    lastSet # None => lastSet.offset.k = "fin"

\* C5: Clock::set returns SetError exactly when the clock-set system call of
\* that invocation returned an error.
C5_SetErrorIffCallFailed ==
    lastSet # None => (lastSet.ret = "SetError" <=> lastSet.rc # 0)

\* the instant `ms` milliseconds after the Unix epoch
Instant(ms) == DtAddMillis(DateTime([hi |-> 0, lo |-> 0], 0), ms)

\* (t4 - t1) - (t3 - t2) towards zero in milliseconds, from the whole
\* milliseconds q and the remaining nanoseconds rem >= 0 of the exact value
ExactDelayMillis(r) ==
    LET secs == WideDiff(r.t4.secs, r.t1.secs) - WideDiff(r.t3.secs, r.t2.secs)
        nanos == (r.t4.nanos - r.t1.nanos) - (r.t3.nanos - r.t2.nanos)
        q == secs * 1000 + (nanos \div 1000000)
        rem == nanos % 1000000
    IN  IF q < 0 /\ rem > 0 THEN q + 1 ELSE q

Samples == {times[i] : i \in 1..Len(times)} \ {None}

\* C6: for every sample, delay is (t4 - t1) - (t3 - t2) in whole milliseconds
\* (towards zero, possibly negative) and offset is |delay| / 2 in whole
\* milliseconds, so never negative; t1 = 0 ms, t2 = 100 ms, t3 = 110 ms,
\* t4 = 220 ms gives delay 210 ms and offset 105 ms.
C6_DelayAndOffset ==
    /\ \A r \in Samples :
          /\ Delay(r) = ExactDelayMillis(r)
          /\ Offset(r) >= 0
          /\ 2 * Offset(r) <= Abs(Delay(r))
          /\ Abs(Delay(r)) <= 2 * Offset(r) + 1
    /\ Delay(NTPResult(Instant(0), Instant(100), Instant(110), Instant(220))) = 210
    /\ Offset(NTPResult(Instant(0), Instant(100), Instant(110), Instant(220))) = 105

\* C6's case: a sample whose delay is negative, and one whose exact delay is
\* not a whole number of milliseconds and whose |delay| is odd
C6_Witness ==
    /\ \E r \in Samples : Delay(r) < 0 /\ Offset(r) > 0
    /\ \E r \in Samples :
          /\ ((r.t4.nanos - r.t1.nanos) - (r.t3.nanos - r.t2.nanos)) % 1000000 # 0
          /\ Abs(Delay(r)) % 2 = 1

RECURSIVE SumOver(_, _)
SumOver(set, f) ==
    IF set = {} THEN 0
    ELSE LET x == CHOOSE y \in set : TRUE
         IN  f[x] + SumOver(set \ {x}, f)

RECURSIVE ProductOver(_, _)
ProductOver(set, f) ==
    IF set = {} THEN 1
    ELSE LET x == CHOOSE y \in set : TRUE
         IN  f[x] * ProductOver(set \ {x}, f)

\* the servers whose entry is a sample with a delay other than 0
Weighted(map) == {server \in DOMAIN map : map[server].k = "Some" /\ Delay(map[server]) # 0}

\* C7: get_time_millis is the weighted mean of offset_ms over exactly the
\* entries that are present and have delay_ms # 0, with weight
\* 1_000_000 / delay_ms^2.  With P the product of the delay_ms^2 of these
\* entries, the weight of an entry is (1_000_000 / P) * (P / delay_ms^2), so
\* the mean is sum(offset * P / delay^2) / sum(P / delay^2), in integers.
\* Offsets 10 and 20 with delays 50 and 100 combine to 12.
C7_WeightedMean ==
    /\ pc = "commit" =>
          LET kept == Weighted(result)
              sq == [server \in kept |-> Delay(result[server]) * Delay(result[server])]
              P == ProductOver(kept, sq)
              share == [server \in kept |-> P \div sq[server]]
              weightedOffset == [server \in kept |-> Offset(result[server]) * share[server]]
          IN  IF kept = {} THEN offset.k = "nan"
              ELSE /\ offset.k = "fin"
                   /\ offset.n * SumOver(kept, share) = offset.d * SumOver(kept, weightedOffset)
    /\ WeightedMean(<<AsF64(10), AsF64(20)>>,
                    <<FDiv(AsF64(1000000), AsF64(50 * 50)),
                      FDiv(AsF64(1000000), AsF64(100 * 100))>>) = AsF64(12)

\* C7's case: a SampleSet with a zero-delay sample and a sample of negative
\* delay has been combined, and the result is the second sample's offset
C7_Witness ==
    /\ pc = "commit"
    /\ \E a, b \in DOMAIN result :
          /\ result[a].k = "Some"
          /\ result[b].k = "Some"
          /\ Delay(result[a]) = 0
          /\ Delay(result[b]) < 0
          /\ Offset(result[b]) > 0
          /\ offset = AsF64(Offset(result[b]))

\* the last probe of this call of sync ended in a fatal error
LastProbeFatal(log) ==
    Len(log) > 0 /\ LogIsErr(log[Len(log)], {"ConnectionError", "ParseTimestampError"})

\* C8: in the daemon loop the calls of sync do not overlap and a cycle runs
\* probe -> combine -> commit -> sleep in that order; a cycle whose probes end
\* in a fatal error ends the loop with no commit and no further cycle, and a
\* cycle whose clock commit fails with SetError goes on to the sleep, which the
\* next cycle follows.
C8_DaemonCycle ==
    [][ /\ active' <= 1
        /\ pc = "test" => pc' \in {"test", "combine", "failed"}
        /\ pc = "combine" => pc' = "commit"
        /\ pc = "commit" => pc' = "sleep" /\ lastSet'.cycle = cycle
        /\ pc = "sleep" => pc' = "test" /\ cycle' = cycle + 1 /\ active' = 1
        /\ pc # "failed"
        /\ LastProbeFatal(probeLog') => pc' = "failed"
        /\ pc' = "failed" => LastProbeFatal(probeLog') /\ lastSet' = None /\ active' = 0
      ]_vars

\* C8's case: a second cycle has begun after the first one's clock commit
\* failed (EPERM is the errno only a failed settimeofday leaves)
C8_Witness ==
    /\ cycle = 2
    /\ pc = "test"
    /\ Len(probeLog) = 0
    /\ errno = OsError.EPERM

\* C9: converting an NTPTimestamp to an instant, back, and to an instant again
\* gives the same whole second and a nanosecond within 1 of the first
\* conversion's.
C9_CodecRoundTrip ==
    stage = 3 =>
        /\ abs2.secs = abs1.secs
        /\ Abs(abs2.nanos - abs1.nanos) <= 1

\* C9's case: a round trip that loses a nanosecond, before the Unix epoch
C9_Witness ==
    /\ stage = 3
    /\ abs2.nanos = abs1.nanos - 1
    /\ abs1.secs.hi < 0

====
